---- MODULE Spec2Model ----
(***************************************************************************)
(* Model of src/backup_script.py: one backup run (main) fetches the device *)
(* configuration, writes it to backups/cisco_backup.cfg, stages it,        *)
(* commits when the index differs from HEAD and pushes to the remote.      *)
(* A run is a sequence of steps (pc); the source file, the index and the   *)
(* remotes change only between runs.  pc = "done" holds from the exit of a *)
(* run until the environment next acts or the next run starts.             *)
(***************************************************************************)
EXTENDS Integers, Sequences, FiniteSets, TLC

(* ---------------- bounds ---------------- *)
MaxRuns == 2

(* ---------------- contents ---------------- *)
Missing == <<"<missing>">>
NoFile  == <<"<nofile>">>

\* byte sequences the source file may hold
Snapshots ==
  { <<>>, <<"A">>, <<"B">>, <<"A", "LF">>, <<"A", "CR", "LF">> }

\* remote names that may be registered in the repository
RemoteNames == {"origin", "upstream"}

remote_name == "origin"

linesep == <<"LF">>

\* open(source_file, 'r').read(): universal newlines, CR LF and CR become LF
RECURSIVE TextRead(_)
TextRead(s) ==
  IF s = <<>> THEN <<>>
  ELSE IF Head(s) = "CR"
       THEN IF Len(s) >= 2 /\ s[2] = "LF"
            THEN <<"LF">> \o TextRead(SubSeq(s, 3, Len(s)))
            ELSE <<"LF">> \o TextRead(Tail(s))
       ELSE <<Head(s)>> \o TextRead(Tail(s))

\* variant: the content is written without its trailing newline
TextWrite_noTrailing(s) ==
  IF s # <<>> /\ s[Len(s)] = "LF" THEN SubSeq(s, 1, Len(s) - 1) ELSE s

\* open(target_file, 'w').write(): every LF is written as os.linesep
RECURSIVE TextWrite(_)
TextWrite(s) ==
  IF s = <<>> THEN <<>>
  ELSE IF Head(s) = "LF"
       THEN linesep \o TextWrite(Tail(s))
       ELSE <<Head(s)>> \o TextWrite(Tail(s))

(* ---------------- log records ---------------- *)
Entry(l, m) == [level |-> l, msg |-> m]

LogStart        == Entry("INFO", "Starting backup process...")
LogConnecting   == Entry("INFO", "Connecting to device source")
LogRetrieved    == Entry("INFO", "Configuration retrieved successfully.")
LogNotFound     == Entry("ERROR", "Source file not found.")
LogRetrieveErr  == Entry("ERROR", "Error retrieving config")
LogSaved        == Entry("INFO", "Configuration saved")
LogInitRepo     == Entry("INFO", "Initializing new Git repository")
LogInitFailed   == Entry("CRITICAL", "Failed to initialize Git repo")
LogNoChanges    == Entry("INFO", "No configuration changes detected. Skipping commit.")
LogCommitted    == Entry("INFO", "Committed changes")
LogPushing      == Entry("INFO", "Pushing to remote")
LogPushOk       == Entry("INFO", "Push successful.")
LogNoRemote     == Entry("WARNING", "Remote not found. Skipping push.")
LogGitFailed    == Entry("ERROR", "Git operation failed")
LogUnexpected   == Entry("ERROR", "Unexpected error during git operations")
LogCompleted    == Entry("INFO", "Backup process completed successfully.")
LogProcessFailed == Entry("CRITICAL", "Backup process failed")

VARIABLES
  source,          \* bytes of the source file, or Missing
  worktree,        \* bytes of backups/cisco_backup.cfg, or NoFile
  repoExists,      \* a .git directory exists under the repository path
  index,           \* staged bytes of the backup file, or NoFile
  indexOther,      \* staged state of every other path of the index
  versions,        \* the commits, in creation order
  head,            \* the commit HEAD points at, 0 when HEAD is not valid
  remotes,         \* names of the registered remotes
  remoteHead,      \* the commit the remote branch holds, 0 when none
  pc,              \* position of the run
  config_content,  \* the string get_config returned
  has_changes,     \* the local of commit_and_push
  log,             \* log records of the current run
  exitCode,        \* -1 while running, else the process exit code
  runs,            \* number of runs started
  steps,           \* the steps the current run has executed
  failed,          \* the step of the current run that raised, or "none"
  diffError,       \* the diff check of the current run raised
  network,         \* network pushes issued by the current run
  pre,             \* worktree, head, versions, repoExists at run start
  snapshot,        \* source bytes the current run read, or Missing
  prevSnapshot,    \* source bytes the previous run read if it ran without error
  steady           \* so far no step raised, the source never changed and
                   \* no other path was staged

repo  == <<source, worktree, repoExists, index, indexOther, versions, head,
           remotes, remoteHead>>
ghost == <<config_content, has_changes, log, exitCode, runs, steps,
           failed, diffError, network, pre, snapshot, prevSnapshot>>
vars  == <<source, worktree, repoExists, index, indexOther, versions, head,
           remotes, remoteHead, pc, config_content, has_changes, log,
           exitCode, runs, steps, failed, diffError, network, pre, snapshot,
           prevSnapshot, steady>>

Between == pc \in {"idle", "done"}

\* a fresh deployment: no repository under the repository path yet, hence
\* no index, no commit and no remote; repositories with a history, staged
\* paths and remotes are what earlier runs and the environment leave behind
Init ==
  /\ source \in Snapshots \cup {Missing}
  /\ worktree = NoFile
  /\ repoExists = FALSE
  /\ index = NoFile
  /\ indexOther = 0
  /\ versions = <<>>
  /\ head = 0
  /\ remotes = {}
  /\ remoteHead = 0
  /\ pc = "idle"
  /\ config_content = <<>>
  /\ has_changes = TRUE
  /\ log = <<>>
  /\ exitCode = -1
  /\ runs = 0
  /\ steps = <<>>
  /\ failed = "none"
  /\ diffError = FALSE
  /\ network = 0
  /\ pre = [worktree |-> NoFile, head |-> 0, versions |-> <<>>, repoExists |-> repoExists]
  /\ snapshot = Missing
  /\ prevSnapshot = Missing
  /\ steady = TRUE

(* ---------------- the environment, between runs ---------------- *)

\* the device configuration changes, or the source file is removed
ChangeSource ==
  /\ Between
  /\ \E s \in Snapshots \cup {Missing} : s # source /\ source' = s
  /\ UNCHANGED <<worktree, repoExists, index, indexOther, versions, head,
                 remotes, remoteHead>>
  /\ pc' = "idle"
  /\ UNCHANGED ghost
  /\ steady' = FALSE

\* somebody stages a change to another path of the repository
StageOther ==
  /\ Between
  /\ repoExists
  /\ indexOther' = 1 - indexOther
  /\ UNCHANGED <<source, worktree, repoExists, index, versions, head,
                 remotes, remoteHead>>
  /\ pc' = "idle"
  /\ UNCHANGED ghost
  /\ steady' = FALSE

\* a remote is registered or removed
SetRemotes ==
  /\ Between
  /\ repoExists
  /\ \E r \in SUBSET RemoteNames : r # remotes /\ remotes' = r
  /\ UNCHANGED <<source, worktree, repoExists, index, indexOther, versions,
                 head, remoteHead>>
  /\ pc' = "idle"
  /\ UNCHANGED ghost
  /\ UNCHANGED steady

(* ---------------- main ---------------- *)

\* variant: a failed fetch is swallowed and the run goes on to the write
Fatal_fetchContinues(step, entries) ==
  /\ log' = log \o entries \o <<LogProcessFailed>>
  /\ exitCode' = IF step = "fetch" THEN exitCode ELSE 1
  /\ failed' = step
  /\ pc' = IF step = "fetch" THEN "persist" ELSE "done"

\* variant: a failed repository open is swallowed and the run goes on
Fatal_openContinues(step, entries) ==
  /\ log' = log \o entries \o <<LogProcessFailed>>
  /\ exitCode' = IF step = "open" THEN exitCode ELSE 1
  /\ failed' = step
  /\ pc' = IF step = "open" THEN "stage" ELSE "done"

\* variant: the handler logs and then never exits
Fatal_hangs(step, entries) ==
  /\ log' = log \o entries \o <<LogProcessFailed>>
  /\ UNCHANGED exitCode
  /\ failed' = step
  /\ pc' = "hung"

\* variant: the handler logs at error level and does not call sys.exit(1)
Fatal_noExit(step, entries) ==
  /\ log' = log \o entries \o <<Entry("ERROR", "Backup process failed")>>
  /\ exitCode' = 0
  /\ failed' = step
  /\ pc' = "done"

\* except Exception in main: logger.critical, sys.exit(1)
Fatal(step, entries) ==
  /\ log' = log \o entries \o <<LogProcessFailed>>
  /\ exitCode' = 1
  /\ failed' = step
  /\ pc' = "done"

\* variant: the "no changes" branch logs but does not return
MainReturn_fallsThrough(entries) ==
  IF entries = <<LogNoChanges>>
  THEN /\ log' = log \o entries
       /\ UNCHANGED exitCode
       /\ pc' = "commit"
  ELSE /\ log' = log \o entries \o <<LogCompleted>>
       /\ exitCode' = 0
       /\ pc' = "done"

\* variant: the "no changes" branch logs and goes on to the push
MainReturn_skipThenPush(entries) ==
  IF entries = <<LogNoChanges>>
  THEN /\ log' = log \o entries
       /\ UNCHANGED exitCode
       /\ pc' = "replicate"
  ELSE /\ log' = log \o entries \o <<LogCompleted>>
       /\ exitCode' = 0
       /\ pc' = "done"

\* commit_and_push returned: main logs completion and the process exits 0
MainReturn(entries) ==
  /\ log' = log \o entries \o <<LogCompleted>>
  /\ exitCode' = 0
  /\ pc' = "done"

\* a new process starts main
Start ==
  /\ Between
  /\ runs < MaxRuns
  /\ runs' = runs + 1
  /\ pc' = "fetch"
  /\ log' = <<LogStart>>
  /\ exitCode' = -1
  /\ steps' = <<>>
  /\ failed' = "none"
  /\ diffError' = FALSE
  /\ network' = 0
  /\ config_content' = <<>>
  /\ has_changes' = TRUE
  /\ pre' = [worktree |-> worktree, head |-> head, versions |-> versions,
             repoExists |-> repoExists]
  /\ prevSnapshot' = IF runs > 0 /\ failed = "none" /\ ~diffError
                     THEN snapshot ELSE Missing
  /\ snapshot' = Missing
  /\ UNCHANGED repo
  /\ steady' = (steady /\ failed' = "none" /\ ~diffError')

\* CiscoDevice.get_config
get_config ==
  /\ pc = "fetch"
  /\ steps' = Append(steps, "fetch")
  /\ \E ok \in BOOLEAN :
       IF source = Missing
       THEN /\ Fatal("fetch", <<LogConnecting, LogNotFound>>)
            /\ UNCHANGED <<config_content, snapshot>>
       ELSE IF ok
       THEN /\ config_content' = TextRead(source)
            /\ snapshot' = source
            /\ log' = log \o <<LogConnecting, LogRetrieved>>
            /\ pc' = "persist"
            /\ UNCHANGED <<exitCode, failed>>
       ELSE /\ Fatal("fetch", <<LogConnecting, LogRetrieveErr>>)
            /\ UNCHANGED <<config_content, snapshot>>
  /\ UNCHANGED repo
  /\ UNCHANGED <<has_changes, runs, diffError, network, pre, prevSnapshot>>
  /\ steady' = (steady /\ failed' = "none" /\ ~diffError')

\* main, step 2: makedirs, open(target_file, 'w'), write
Persist ==
  /\ pc = "persist"
  /\ steps' = Append(steps, "persist")
  /\ \E outcome \in {"ok", "open_failed", "write_failed"} :
       CASE outcome = "ok" ->
              /\ worktree' = TextWrite(config_content)
              /\ log' = log \o <<LogSaved>>
              /\ pc' = "open"
              /\ UNCHANGED <<exitCode, failed>>
         [] outcome = "open_failed" ->
              /\ Fatal("persist", <<>>)
              /\ UNCHANGED worktree
         [] outcome = "write_failed" ->
              \* open(..., 'w') has truncated the file before write raised
              /\ Fatal("persist", <<>>)
              /\ worktree' = <<>>
  /\ UNCHANGED <<source, repoExists, index, indexOther, versions, head,
                 remotes, remoteHead>>
  /\ UNCHANGED <<config_content, has_changes, runs, diffError, network, pre,
                 snapshot, prevSnapshot>>
  /\ steady' = (steady /\ failed' = "none" /\ ~diffError')

\* GitManager.__init__ / _init_repo
init_repo ==
  /\ pc = "open"
  /\ steps' = Append(steps, "open")
  /\ \E ok \in BOOLEAN :
       IF ok
       THEN /\ repoExists' = TRUE
            /\ log' = IF repoExists THEN log ELSE log \o <<LogInitRepo>>
            /\ pc' = "stage"
            /\ UNCHANGED <<exitCode, failed>>
       ELSE /\ Fatal("open", <<LogInitFailed>>)
            /\ UNCHANGED repoExists
  /\ UNCHANGED <<source, worktree, index, indexOther, versions, head,
                 remotes, remoteHead>>
  /\ UNCHANGED <<config_content, has_changes, runs, diffError, network, pre,
                 snapshot, prevSnapshot>>
  /\ steady' = (steady /\ failed' = "none" /\ ~diffError')

(* ---------------- GitManager.commit_and_push ---------------- *)

\* variant: the handlers of commit_and_push re-raise to main
GitError_reraise(step, entries) ==
  \E e \in {LogGitFailed, LogUnexpected} : Fatal(step, entries \o <<e>>)

\* variant: the error is logged where it happens and the next git step runs
GitError_continues(step, entries) ==
  /\ failed' = step
  /\ log' = log \o entries \o <<LogUnexpected>>
  /\ UNCHANGED exitCode
  /\ pc' = CASE step = "stage" -> "evaluate"
              [] step = "commit" -> "replicate"
              [] OTHER -> "done"

\* variant: a failed push is re-raised to main
GitError_pushFatal(step, entries) ==
  /\ \E e \in {LogGitFailed, LogUnexpected} :
       IF step = "push"
       THEN Fatal(step, entries \o <<e>>)
       ELSE failed' = step /\ MainReturn(entries \o <<e>>)

\* except GitCommandError / except Exception: logger.error, then return
GitError(step, entries) ==
  /\ failed' = step
  /\ \E e \in {LogGitFailed, LogUnexpected} : MainReturn(entries \o <<e>>)

\* self.repo.index.add([filename])
index_add ==
  /\ pc = "stage"
  /\ steps' = Append(steps, "stage")
  /\ \E ok \in BOOLEAN :
       IF ok
       THEN /\ index' = worktree
            /\ pc' = "evaluate"
            /\ UNCHANGED <<log, exitCode, failed>>
       ELSE /\ GitError("stage", <<>>)
            /\ UNCHANGED index
  /\ UNCHANGED <<source, worktree, repoExists, indexOther, versions, head,
                 remotes, remoteHead>>
  /\ UNCHANGED <<config_content, has_changes, runs, diffError, network, pre,
                 snapshot, prevSnapshot>>
  /\ steady' = (steady /\ failed' = "none" /\ ~diffError')

\* self.repo.index.diff(self.repo.head.commit): the paths whose staged
\* entry differs from the tree of commit h
IndexDiff(h) ==
  (IF index # versions[h].content THEN {"backups/cisco_backup.cfg"} ELSE {})
  \cup (IF indexOther # versions[h].other THEN {"<other>"} ELSE {})

\* variant: an exception of the diff check is taken as "no changes"
HasChanges_raisedIsUnchanged(headValid, diff, raised) ==
  IF raised THEN FALSE
  ELSE ~(headValid /\ diff = {})

\* variant: the result of the diff check is never consulted
HasChanges_always(headValid, diff, raised) == TRUE

\* variant: without a valid HEAD there is nothing to compare and so no change
HasChanges_needsHead(headValid, diff, raised) ==
  raised \/ (headValid /\ diff # {})

\* variant: a change is what makes the backup file differ from the file the
\* run found
HasChanges_fileChanged(headValid, diff, raised) ==
  worktree # pre.worktree

\* lines 79-85: has_changes stays True unless HEAD is valid and the diff is
\* empty; an exception of the check is swallowed
HasChanges(headValid, diff, raised) ==
  IF raised THEN TRUE
  ELSE ~(headValid /\ diff = {})

\* lines 78-89
evaluate ==
  /\ pc = "evaluate"
  /\ steps' = Append(steps, "evaluate")
  /\ \E raised \in BOOLEAN :
       /\ raised => head # 0
       /\ diffError' = raised
       /\ has_changes' = HasChanges(head # 0,
                                    IF head # 0 THEN IndexDiff(head) ELSE {},
                                    raised)
       /\ IF has_changes'
          THEN /\ pc' = "commit"
               /\ UNCHANGED <<log, exitCode>>
          ELSE MainReturn(<<LogNoChanges>>)
  /\ UNCHANGED repo
  /\ UNCHANGED <<config_content, runs, failed, network, pre, snapshot,
                 prevSnapshot>>
  /\ steady' = (steady /\ failed' = "none" /\ ~diffError')

\* variant: the commit is created without a parent
NewVersion_orphan ==
  [content |-> index, other |-> indexOther, parent |-> 0]

\* the commit index.commit creates: the staged tree, parent the old HEAD
NewVersion ==
  [content |-> index, other |-> indexOther, parent |-> head]

\* variant: the commit replaces the commit at HEAD (an amend)
Committed_amend(vs, v) ==
  IF vs = <<>> THEN <<v>> ELSE [vs EXCEPT ![Len(vs)] = v]

\* the history after index.commit wrote commit v
Committed(vs, v) == Append(vs, v)

\* self.repo.index.commit(commit_message)
index_commit ==
  /\ pc = "commit"
  /\ steps' = Append(steps, "commit")
  /\ \E ok \in BOOLEAN :
       IF ok
       THEN /\ versions' = Committed(versions, NewVersion)
            /\ head' = Len(versions')
            /\ log' = log \o <<LogCommitted>>
            /\ pc' = "replicate"
            /\ UNCHANGED <<exitCode, failed>>
       ELSE /\ GitError("commit", <<>>)
            /\ UNCHANGED <<versions, head>>
  /\ UNCHANGED <<source, worktree, repoExists, index, indexOther, remotes,
                 remoteHead>>
  /\ UNCHANGED <<config_content, has_changes, runs, diffError, network, pre,
                 snapshot, prevSnapshot>>
  /\ steady' = (steady /\ failed' = "none" /\ ~diffError')

\* variant: any registered remote counts
RemoteExists_any == remotes # {}

\* line 95: self.remote_name in [r.name for r in self.repo.remotes]
RemoteExists == remote_name \in remotes

\* lines 94-101
push ==
  /\ pc = "replicate"
  /\ steps' = Append(steps, "replicate")
  /\ IF RemoteExists
     THEN /\ network' = network + 1
          /\ \E ok \in BOOLEAN :
               IF ok
               THEN /\ remoteHead' = head
                    /\ MainReturn(<<LogPushing, LogPushOk>>)
                    /\ UNCHANGED failed
               ELSE /\ GitError("push", <<LogPushing>>)
                    /\ UNCHANGED remoteHead
     ELSE /\ MainReturn(<<LogNoRemote>>)
          /\ UNCHANGED <<network, remoteHead, failed>>
  /\ UNCHANGED <<source, worktree, repoExists, index, indexOther, versions,
                 head, remotes>>
  /\ UNCHANGED <<config_content, has_changes, runs, diffError, pre, snapshot,
                 prevSnapshot>>
  /\ steady' = (steady /\ failed' = "none" /\ ~diffError')

Next ==
  \/ ChangeSource
  \/ StageOther
  \/ SetRemotes
  \/ Start
  \/ get_config
  \/ Persist
  \/ init_repo
  \/ index_add
  \/ evaluate
  \/ index_commit
  \/ push

Spec == Init /\ [][Next]_vars

\* a step of the running process
RunStep ==
  \/ get_config
  \/ Persist
  \/ init_repo
  \/ index_add
  \/ evaluate
  \/ index_commit
  \/ push

(* ---------------- derived notions ---------------- *)

Logged(e) == \E i \in 1..Len(log) : log[i] = e

Done == pc = "done"

\* the run added a Version to the history
Created == Len(versions) = Len(pre.versions) + 1

\* the run took the "no changes" return of commit_and_push
Skipped == Logged(LogNoChanges)

\* the run logged its completion without having skipped
Completed == Logged(LogCompleted) /\ ~Skipped

InSteps(st) == \E i \in 1..Len(steps) : steps[i] = st

\* content and other paths recorded at the HEAD the run started from
PreHeadContent ==
  IF pre.head = 0 THEN NoFile ELSE pre.versions[pre.head].content
PreHeadOther ==
  IF pre.head = 0 THEN 0 ELSE pre.versions[pre.head].other

\* the order in which main and commit_and_push execute their steps
RunOrder ==
  <<"fetch", "persist", "open", "stage", "evaluate", "commit", "replicate">>

\* the run ended in main's handler
Failed == exitCode = 1 /\ Logged(LogProcessFailed)

Running == ~Between

TypeOK ==
  /\ source \in Snapshots \cup {Missing}
  /\ head \in 0..Len(versions)
  /\ exitCode \in {-1, 0, 1}
  /\ runs \in 0..MaxRuns
  /\ Len(versions) <= runs

(* ---------------- C1 ---------------- *)

\* C1 as stated: in a run that staged the backup file and in which no step
\* failed, a Version is created if and only if HEAD did not exist or the
\* staged backup file differs from the copy recorded at HEAD.
C1_VersionIffBackupFileDiffers ==
  (Done /\ InSteps("evaluate") /\ failed = "none") =>
    (Created <=> (pre.head = 0 \/ index # PreHeadContent))

\* C1 amended: a run creates a Version if and only if it reached the change
\* check, the commit did not fail, and HEAD did not exist, or the index
\* differs from HEAD in the backup file or in any other path, or the diff
\* check raised.
C1_VersionIffIndexDiffersOrCheckRaised ==
  Done =>
    (Created <=>
       /\ InSteps("evaluate")
       /\ failed # "commit"
       /\ \/ pre.head = 0
          \/ index # PreHeadContent
          \/ indexOther # PreHeadOther
          \/ diffError)

\* a Version was created although the backup file equals HEAD's copy,
\* because the diff check raised
C1_Witness ==
  Done /\ Created /\ pre.head # 0 /\ index = PreHeadContent /\ diffError
       /\ indexOther = PreHeadOther

(* ---------------- C2 ---------------- *)

\* C2: from a repository with no Version, after one or more runs in which
\* no step raised, the source never changed and nothing else was staged,
\* the history holds exactly one Version: the first run committed and every
\* later run skipped.
C2_Idempotent ==
  (Done /\ steady) =>
    /\ Len(versions) = 1
    /\ head = 1
    /\ runs = 1 => (Created /\ ~Skipped)
    /\ runs >= 2 => (Skipped /\ versions = pre.versions)

C2_Witness ==
  Done /\ steady /\ runs >= 2 /\ Skipped /\ Len(versions) = 1

(* ---------------- C3 ---------------- *)

\* C3: a run in which no step raised and whose snapshot differs from the
\* content at HEAD appends exactly one Version; it records the snapshot and
\* its predecessor is the HEAD the run started from.
C3_ChangeCreatesOneVersion ==
  (Done /\ failed = "none" /\ snapshot # Missing
        /\ config_content # PreHeadContent) =>
    /\ Len(versions) = Len(pre.versions) + 1
    /\ SubSeq(versions, 1, Len(pre.versions)) = pre.versions
    /\ head = Len(versions)
    /\ versions[head].content = config_content
    /\ versions[head].parent = pre.head

\* "A" then "B": two Versions, the second holds "B" and follows the first
C3_Witness ==
  /\ Done /\ failed = "none" /\ runs = 2
  /\ Len(versions) = 2 /\ head = 2
  /\ versions[1].content = <<"A">> /\ versions[1].parent = 0
  /\ versions[2].content = <<"B">> /\ versions[2].parent = 1

(* ---------------- C4 ---------------- *)

\* C4: when two successive runs, neither with a failing step, read
\* snapshots that differ in any byte, the second run creates a Version.
C4_ByteExact ==
  (Done /\ failed = "none" /\ prevSnapshot # Missing /\ snapshot # Missing
        /\ snapshot # prevSnapshot) =>
    Created

(* ---------------- C5 ---------------- *)

\* C5: a run whose fetch failed executed no other step, wrote nothing,
\* opened no repository, created no Version, pushed nothing and exited
\* with code 1.
C5_FetchFailureWritesNothing ==
  (Done /\ failed = "fetch") =>
    /\ steps = <<"fetch">>
    /\ worktree = pre.worktree
    /\ repoExists = pre.repoExists
    /\ versions = pre.versions
    /\ head = pre.head
    /\ network = 0
    /\ exitCode = 1

\* the fetch of a run failed while a history and a backup file exist
C5_Witness ==
  Done /\ failed = "fetch" /\ pre.head # 0 /\ pre.worktree # NoFile

(* ---------------- C6 ---------------- *)

\* C6: a run that ended Completed or Skipped exited with 0, a run whose
\* fetch or write failed exited with a non-zero code, and a run whose
\* commit or push failed exited with 0.
C6_ExitCode ==
  Done =>
    /\ (Completed \/ Skipped) => exitCode = 0
    /\ failed \in {"fetch", "persist"} => exitCode = 1
    /\ failed \in {"commit", "push"} => exitCode = 0

\* the commit of a run failed and the process has exited
C6_Witness ==
  Done /\ failed = "commit" /\ exitCode = 0

(* ---------------- C7 ---------------- *)

\* C7: a run whose commit failed created no Version, left HEAD unchanged
\* and did not report the Completed state.
C7_CommitFailureIsFailed ==
  (Done /\ failed = "commit") =>
    /\ versions = pre.versions
    /\ head = pre.head
    /\ ~Logged(LogCompleted)

(* ---------------- C8 ---------------- *)

\* C8 as stated: a run in which any step raised exited with a non-zero
\* code and logged the error at CRITICAL.
C8_AnyErrorIsFatal ==
  (Done /\ failed # "none") =>
    /\ exitCode = 1
    /\ \E i \in 1..Len(log) : log[i].level = "CRITICAL"

\* C8 amended: an error of fetch, write or repository open exits with 1
\* and is logged at CRITICAL; an error of staging, commit or push is caught
\* in commit_and_push, logged at ERROR only, and the run logs its
\* completion and exits with 0.
C8_ErrorsByStep ==
  Done =>
    /\ failed \in {"fetch", "persist", "open"} =>
         /\ exitCode = 1
         /\ log[Len(log)] = LogProcessFailed
         /\ log[Len(log)].level = "CRITICAL"
    /\ failed \in {"stage", "commit", "push"} =>
         /\ exitCode = 0
         /\ \E i \in 1..Len(log) : log[i] \in {LogGitFailed, LogUnexpected}
         /\ \A i \in 1..Len(log) : log[i].level # "CRITICAL"
         /\ log[Len(log)] = LogCompleted

\* staging raised
C8_Witness ==
  Done /\ failed = "stage" /\ exitCode = 0

(* ---------------- C9 ---------------- *)

\* C9: a run whose commit succeeded ends Completed with exit code 0
\* whatever the push did, and the new Version is still the HEAD.
C9_CommittedRunCompletes ==
  (Done /\ InSteps("commit") /\ failed # "commit") =>
    /\ Completed
    /\ exitCode = 0
    /\ Len(versions) = Len(pre.versions) + 1
    /\ SubSeq(versions, 1, Len(pre.versions)) = pre.versions
    /\ head = Len(versions)
    /\ versions[head].parent = pre.head

\* the push of a committed run failed
C9_Witness ==
  Done /\ failed = "push" /\ network = 1 /\ head = pre.head + 1

(* ---------------- C10 ---------------- *)

\* C10: a run that reached the push step with no remote of the configured
\* name issued no network push, logged the skip and returned without
\* error; a run issued a network push only if that remote exists.
C10_NoRemoteNoNetwork ==
  Done =>
    /\ (InSteps("replicate") /\ remote_name \notin remotes) =>
         /\ network = 0
         /\ Logged(LogNoRemote)
         /\ failed = "none"
         /\ exitCode = 0
         /\ remoteHead # head
    /\ network > 0 => remote_name \in remotes

\* a run committed while only a remote of another name is registered
C10_Witness ==
  Done /\ InSteps("replicate") /\ remotes = {"upstream"} /\ network = 0

(* ---------------- C11 ---------------- *)

\* C11: a run that starts without a HEAD and in which no step raises
\* creates exactly one Version, whatever the snapshot holds, the empty
\* content included; the Version records the snapshot and has no parent.
C11_FirstRunCommits ==
  (Done /\ failed = "none" /\ snapshot # Missing /\ pre.head = 0) =>
    /\ pre.versions = <<>>
    /\ Len(versions) = 1
    /\ head = 1
    /\ versions[1].content = config_content
    /\ versions[1].parent = 0
    /\ ~Skipped

\* the first run committed the empty content
C11_Witness ==
  /\ Done /\ failed = "none" /\ pre.head = 0 /\ snapshot = <<>>
  /\ Len(versions) = 1 /\ versions[1].content = <<>>

(* ---------------- C12 ---------------- *)

\* C12: every step leaves the existing Versions as they are and appends at
\* most one; HEAD moves only to a Version appended by that step, whose
\* parent is the old HEAD; a run holds at most one Version more than the
\* history it started from.
C12_AppendOnly ==
  [][ /\ Len(versions') >= Len(versions)
      /\ Len(versions') <= Len(versions) + 1
      /\ SubSeq(versions', 1, Len(versions)) = versions
      /\ head' # head =>
            /\ Len(versions') = Len(versions) + 1
            /\ head' = Len(versions')
            /\ versions'[head'].parent = head
      /\ Len(versions') > Len(versions) => head' = Len(versions')
      /\ Len(versions') <= Len(pre'.versions) + 1
      /\ SubSeq(versions', 1, Len(pre'.versions)) = pre'.versions
    ]_vars

\* a second Version was appended and a later step of the run failed
C12_Witness ==
  Done /\ Len(versions) = 2 /\ head = 2 /\ failed = "push"
       /\ versions[2].parent = 1

(* ---------------- C13 ---------------- *)

\* C13: a run whose repository open failed exited with code 1 after the
\* steps fetch, write and open; it staged nothing, committed nothing and
\* pushed nothing.
C13_OpenFailureIsFatal ==
  (Done /\ failed = "open") =>
    /\ exitCode = 1
    /\ steps = <<"fetch", "persist", "open">>
    /\ versions = pre.versions
    /\ head = pre.head
    /\ network = 0
    /\ Logged(LogInitFailed)
    /\ ~Logged(LogCompleted)

\* the open failed on an existing repository with a history
C13_Witness ==
  Done /\ failed = "open" /\ pre.repoExists /\ pre.head # 0

(* ---------------- C14 ---------------- *)

\* C14: the steps a run has executed are an initial part of fetch, write,
\* open, stage, evaluate, commit, push, each at most once; a commit step is
\* executed only after a change evaluation that was true, a push step only
\* after the commit of the same run succeeded, a skipping run stops at the
\* evaluation, and a step that failed is the last step of its run.
C14_StepOrder ==
  /\ Len(steps) <= Len(RunOrder)
  /\ steps = SubSeq(RunOrder, 1, Len(steps))
  /\ InSteps("commit") => has_changes
  /\ InSteps("replicate") => (Logged(LogCommitted) /\ Created)
  /\ Skipped => steps = SubSeq(RunOrder, 1, 5)
  /\ failed # "none" =>
       /\ Between
       /\ steps[Len(steps)] = (IF failed = "push" THEN "replicate" ELSE failed)

\* a run executed all seven steps and its push failed
C14_Witness ==
  Done /\ steps = RunOrder /\ failed = "push" /\ runs = 2

(* ---------------- C15 ---------------- *)

\* C15: a run whose change evaluation was false ended Skipped with exit
\* code 0; the Versions and HEAD are those the run started from, and it
\* executed no commit step and no push.
C15_SkipLeavesHistory ==
  (Done /\ InSteps("evaluate") /\ ~has_changes) =>
    /\ Skipped
    /\ versions = pre.versions
    /\ head = pre.head
    /\ network = 0
    /\ ~InSteps("commit")
    /\ ~InSteps("replicate")
    /\ exitCode = 0

\* a run skipped on a history of one Version that no remote holds
C15_Witness ==
  Done /\ ~has_changes /\ Skipped /\ Len(versions) = 1 /\ remoteHead = 0

(* ---------------- C16 ---------------- *)

\* C16: a run that has not ended always has a next step to execute and has
\* executed fewer than the seven steps, every step of a run adds one to the
\* steps executed (so no step repeats and the run ends within seven), and
\* a run that has ended is in exactly one of the states Completed, Skipped
\* and Failed, with an exit code set, whatever the outcome of each step.
C16_RunTerminates ==
  /\ [](Running => (ENABLED RunStep /\ Len(steps) < Len(RunOrder)))
  /\ [][Running => (RunStep /\ Len(steps') = Len(steps) + 1)]_vars
  /\ []((Done /\ runs > 0) =>
          /\ exitCode \in {0, 1}
          /\ Completed \/ Skipped \/ Failed
          /\ ~(Completed /\ Skipped)
          /\ ~(Completed /\ Failed)
          /\ ~(Skipped /\ Failed))

\* a run ended after its commit step failed
C16_Witness ==
  Done /\ runs = 2 /\ failed = "commit" /\ Completed

(* ---------------- C17 ---------------- *)

\* C17: a network push is issued, and the remote branch moves, only in the
\* push step of a run that has itself created a Version; a run in which no
\* step raises, with nothing else staged, whose snapshot equals the content
\* at HEAD ends Skipped without a push, so a Version that was not pushed
\* stays unreplicated until a run commits again.
C17_PushOnlyAfterOwnCommit ==
  /\ [][ (network' > network \/ remoteHead' # remoteHead) =>
           /\ pc = "replicate"
           /\ Created
           /\ Logged(LogCommitted)
           /\ head = Len(versions)
           /\ remoteHead' \in {remoteHead, head}
       ]_vars
  /\ []( ( /\ Done /\ failed = "none" /\ ~diffError /\ snapshot # Missing
           /\ pre.head # 0
           /\ config_content = PreHeadContent
           /\ indexOther = PreHeadOther ) =>
          (Skipped /\ network = 0 /\ versions = pre.versions) )

\* the remote exists now, yet the run skipped and the Version its
\* predecessor could not push is still not on the remote
C17_Witness ==
  /\ Done /\ Skipped /\ runs = 2 /\ head = 1 /\ remoteHead = 0
  /\ remote_name \in remotes /\ network = 0

(* ---------------- C18 ---------------- *)

\* C18: after a run that ended Skipped or that created a Version, the
\* content recorded at HEAD for the backup file, the staged content, the
\* working-tree backup file and the content get_config returned in that
\* run are all equal.
C18_HeadEqualsFileEqualsSnapshot ==
  (Done /\ (Skipped \/ Created)) =>
    /\ head # 0
    /\ snapshot # Missing
    /\ versions[head].content = worktree
    /\ index = worktree
    /\ worktree = config_content

\* a run created a Version for content ending in a newline although its
\* push failed
C18_Witness ==
  /\ Done /\ Created /\ failed = "push"
  /\ versions[head].content = <<"A", "LF">> /\ worktree = <<"A", "LF">>

(* ---------------- C19 ---------------- *)

====
